---------------------------- MODULE Spec2Model ----------------------------
(***************************************************************************)
(* Model of the procedural ambient audio engine of SmartAIMap              *)
(* (src/components/AudioManager.tsx): a React component whose five         *)
(* effects build a Web Audio graph, retarget its parameters when the       *)
(* props (profile, status, scrollPos, isMuted) change, and install         *)
(* setInterval routines per profile and for the OVERRIDE alarm.            *)
(*                                                                         *)
(* Units: gains are in hundredths (0.4 is 40), the pan is in fiftieths     *)
(* (pan 1 is 50, so that scrollPos / 50 - 1 is scrollPos - 50),            *)
(* frequencies are in Hz, the resonance Q is a plain number.               *)
(*                                                                         *)
(* A second part models the content client (src/unnamed/part_000): the     *)
(* exported calls of the Gemini API and the withRetry wrapper.  Delays are *)
(* in milliseconds.                                                        *)
(*                                                                         *)
(* A third part models the lock-status console                             *)
(* (src/components/BotInterface.tsx) and its event log.                    *)
(***************************************************************************)
EXTENDS Integers, Sequences, FiniteSets, TLC

(***************************************************************************)
(* Bounds of the model.                                                    *)
(***************************************************************************)
\* the scrollPos prop is documented as 0..100 but is a plain number: the
\* host's values include some that lie ScrollOver outside that range
ScrollOver == 50
\* at most MaxValueTicks ticks are followed in their effect on later steps:
\* the ticks that read frequency.value (Electronic, Hostile; caps the walk
\* of the bank frequencies) and the ticks whose scheduled end is awaited
\* step by step (Natural, Industrial)
MaxValueTicks == 1

ScrollInputs == {0, 50, 100 + ScrollOver}
\* scroll positions for the study of the pan mapping
PanInputs == {0 - ScrollOver, 0, 50, 75, 100, 100 + ScrollOver}

(***************************************************************************)
(* Enumerations.                                                           *)
(***************************************************************************)
KnownProfiles == {"Natural", "Industrial", "Void", "Electronic", "Hostile"}
\* the prop is typed by TypeScript only: at run time it is whatever string
\* the content backend put in soundProfile
Profiles == KnownProfiles \cup {"Unknown"}
BotLockStatus == {"UNLOCKED", "SCANNING", "LOCKED", "OVERRIDE"}
TimerKinds == {"Alarm", "Natural", "Industrial", "Electronic", "Hostile"}
ProfileTimerKinds == TimerKinds \ {"Alarm"}
Slots == 0..2
\* the AudioParams of the graph whose writes are recorded by method; the
\* bank frequencies are recorded per slot, and the alarm frequency is
\* followed by its value (alarmValue)
AudioParams == {"mainGain", "noiseGain", "droneGain", "alarmGain", "pan",
                "filterFreq", "filterQ"}

(***************************************************************************)
(* Program constants (scaled as described above).                          *)
(***************************************************************************)
NominalGain == 40
AlarmGainOn == 10
BaselineQ == 1
BaselineNoiseGain == 50
BaselineDroneGain == 20
AlarmPeriod == 1000
AlarmSweepHigh == 880
AlarmSweepLow == 440
PulseLow == 15
PulseHigh == 25
\* Web Audio defaults of freshly created nodes
DefaultGain == 100
DefaultFilterFreq == 350
DefaultOscFreq == 440

\* inputs standing for Math.random() in the timer bodies
NaturalRampChoices == {200, 999}
GlitchChoices == {100, 5099}
JitterChoices == {<<10, 10, 10>>, <<-10, 0, 10>>}

VARIABLES
  phase,          \* "unmounted", "mounted", or "failed" (mount effect threw)
  profile,        \* props of the component
  status,
  scrollPos,
  isMuted,
  refs,           \* the useRef cells: which of them hold a node
  ctxState,       \* "none", "running", "closed"
  graph,          \* targets (and bank values) of the graph parameters
  timers,         \* live setInterval routines, by kind
  statusCleanup,  \* cleanup React holds for the status effect
  profileCleanup, \* cleanup React holds for the profile effect
  blip,           \* pending restore of an Electronic glitch
  pending,        \* ends of the ramps a routine scheduled and that lie ahead
  valueTicks,     \* ticks taken that are followed (see MaxValueTicks)
  lateCallbacks,  \* TRUE once a timer callback ran on a closed context
  raised,         \* exceptions the effects of this instance have thrown
  liveGraphs,     \* AudioContexts constructed and not closed
  closeCalls,     \* calls of close() on the context of the last start
  restarted,      \* TRUE in the state reached by a start that follows a
                  \* stop of a started engine, FALSE after any further step
  client,         \* the content client's call in progress
  bot             \* the lock-status console: its status prop and its log

vars == <<phase, profile, status, scrollPos, isMuted, refs, ctxState, graph,
          timers, statusCleanup, profileCleanup, blip, pending, valueTicks,
          lateCallbacks, raised, liveGraphs, closeCalls, restarted, client,
          bot>>

\* the state of the audio engine
audioVars == <<phase, profile, status, scrollPos, isMuted, refs, ctxState,
               graph, timers, statusCleanup, profileCleanup, blip, pending,
               valueTicks, lateCallbacks, raised, liveGraphs, closeCalls,
               restarted>>

NoRefs ==
  [audioCtx |-> FALSE, mainGain |-> FALSE, noiseNode |-> FALSE,
   noiseFilter |-> FALSE, noiseGain |-> FALSE, oscBank |-> 0,
   droneGain |-> FALSE, spatialPanner |-> FALSE, alarmOsc |-> FALSE,
   alarmGain |-> FALSE]

AllRefs ==
  [audioCtx |-> TRUE, mainGain |-> TRUE, noiseNode |-> TRUE,
   noiseFilter |-> TRUE, noiseGain |-> TRUE, oscBank |-> 3,
   droneGain |-> TRUE, spatialPanner |-> TRUE, alarmOsc |-> TRUE,
   alarmGain |-> TRUE]

NoTimers == [k \in TimerKinds |-> 0]

\* no ramp end lies ahead (0: none), on the cutoff and on the drone gain
NoPending == [cutoff |-> 0, drone |-> 0]

\* the graph as the mount effect builds it, before the other effects run
NewGraph(muted) ==
  [mainGain |-> IF muted THEN 0 ELSE NominalGain,
   filterType |-> "lowpass", filterFreq |-> DefaultFilterFreq,
   filterQ |-> BaselineQ,
   noiseGain |-> DefaultGain, droneGain |-> BaselineDroneGain,
   pan |-> 0,
   bankType |-> [i \in Slots |-> "sine"],
   bankTarget |-> [i \in Slots |-> DefaultOscFreq],
   bankValue |-> [i \in Slots |-> DefaultOscFreq],
   alarmType |-> "sawtooth", alarmGain |-> 0,
   alarmFreq |-> DefaultOscFreq, alarmValue |-> DefaultOscFreq,
   bankSize |-> 3,
   \* the connections made at construction
   edges |-> {<<"mainGain", "destination">>, <<"noiseNode", "noiseFilter">>,
              <<"noiseFilter", "noiseGain">>, <<"noiseGain", "mainGain">>,
              <<"panner", "mainGain">>, <<"droneGain", "panner">>,
              <<"bank0", "droneGain">>, <<"bank1", "droneGain">>,
              <<"bank2", "droneGain">>, <<"alarmOsc", "alarmGain">>,
              <<"alarmGain", "mainGain">>},
   \* how construction set each parameter: by a write of .value, or not at
   \* all (the node's default)
   built |-> [a \in AudioParams |->
                IF a \in {"mainGain", "droneGain", "alarmGain"}
                THEN "value" ELSE "default"],
   \* the AudioParam methods called by the last handler that wrote the
   \* parameter, per parameter and per bank slot
   how |-> [a \in AudioParams |-> {}],
   howBank |-> [i \in Slots |-> {}]]

NoGraph == [NewGraph(FALSE) EXCEPT !.bankSize = 0, !.edges = {}]

(***************************************************************************)
(* AudioParam primitives.                                                  *)
(***************************************************************************)
\* param.setTargetAtTime(v, now, tau): v becomes the target of param
SetTargetAtTime(g, param, v) ==
  [g EXCEPT ![param] = v, !.how[param] = {"setTargetAtTime"}]

\* a profile change that replaces the oscillator of a slot by a new one
SetBankReplace(g, i, type, f) ==
  [g EXCEPT !.bankType[i] = type, !.bankTarget[i] = f,
            !.howBank[i] = {"setTargetAtTime"},
            !.bankSize = @ + 1,
            !.edges = @ \cup {<<"bank3", "droneGain">>}]

\* bank[i].type = type; bank[i].frequency.setTargetAtTime(f, now, 0.5)
SetBank(g, i, type, f) ==
  [g EXCEPT !.bankType[i] = type, !.bankTarget[i] = f,
            !.howBank[i] = {"setTargetAtTime"}]

\* setInterval(body, period) / clearInterval(id)
SetInterval(t, kind) == [t EXCEPT ![kind] = @ + 1]
ClearInterval(t, kind) == [t EXCEPT ![kind] = IF @ > 0 THEN @ - 1 ELSE 0]

TimerPeriod(kind) ==
  CASE kind = "Alarm" -> AlarmPeriod
    [] kind = "Natural" -> 2000
    [] kind = "Industrial" -> 1000
    [] kind = "Electronic" -> 600
    [] kind = "Hostile" -> 50

(***************************************************************************)
(* The effects.  An effect works on the engine record                      *)
(*   [graph, timers, statusCleanup, profileCleanup, thrown]                *)
(* and reads the ref cells r; thrown counts the exceptions of the commit.  *)
(***************************************************************************)
Engine(g, t, sc, pc) ==
  [graph |-> g, timers |-> t, statusCleanup |-> sc, profileCleanup |-> pc,
   thrown |-> 0]

\* a mute effect that restores full gain instead of the nominal level
MuteEffectFull(e, r, muted) ==
  IF r.mainGain /\ r.audioCtx
  THEN [e EXCEPT !.graph =
          SetTargetAtTime(@, "mainGain", IF muted THEN 0 ELSE DefaultGain)]
  ELSE e

\* a mute effect that writes gain.value instead of scheduling a transition
MuteEffectDirect(e, r, muted) ==
  IF r.mainGain /\ r.audioCtx
  THEN [e EXCEPT !.graph =
          [@ EXCEPT !.mainGain = IF muted THEN 0 ELSE NominalGain,
                    !.how["mainGain"] = {"value"}]]
  ELSE e

\* a mute effect that silences the alarm voice along with the master gain
MuteEffectAlarmToo(e, r, muted) ==
  IF r.mainGain /\ r.audioCtx
  THEN [e EXCEPT !.graph =
          SetTargetAtTime(
            SetTargetAtTime(@, "mainGain", IF muted THEN 0 ELSE NominalGain),
            "alarmGain", IF muted THEN 0 ELSE @.alarmGain)]
  ELSE e

\* useEffect(..., [isMuted])
MuteEffect(e, r, muted) ==
  IF r.mainGain /\ r.audioCtx
  THEN [e EXCEPT !.graph =
          SetTargetAtTime(@, "mainGain", IF muted THEN 0 ELSE NominalGain)]
  ELSE e

\* (scrollPos / 50) - 1, in fiftieths
PanValue(p) == p - 50

\* a pan effect without the guard on its refs: it dereferences null
PanEffectUnguarded(e, r, p) ==
  IF r.spatialPanner /\ r.audioCtx
  THEN [e EXCEPT !.graph = SetTargetAtTime(@, "pan", PanValue(p))]
  ELSE [e EXCEPT !.thrown = @ + 1]

\* useEffect(..., [scrollPos])
PanEffect(e, r, p) ==
  IF r.spatialPanner /\ r.audioCtx
  THEN [e EXCEPT !.graph = SetTargetAtTime(@, "pan", PanValue(p))]
  ELSE e

\* a status effect whose cleanup forgets the interval
StatusCleanupLeak(e) ==
  [e EXCEPT !.statusCleanup = "none"]

\* a status cleanup that clears every interval, not only its own
StatusCleanupAll(e) ==
  [e EXCEPT !.timers = NoTimers, !.statusCleanup = "none"]

\* the function the status effect returned on its last run
StatusCleanup(e) ==
  IF e.statusCleanup # "none"
  THEN [e EXCEPT !.timers = ClearInterval(@, e.statusCleanup),
                 !.statusCleanup = "none"]
  ELSE e

\* a status effect that installs the sweep but returns no cleanup
StatusEffectNoCleanup(e, r, s) ==
  IF ~r.audioCtx \/ ~r.alarmGain \/ ~r.alarmOsc
  THEN [e EXCEPT !.statusCleanup = "none"]
  ELSE IF s = "OVERRIDE"
       THEN [e EXCEPT !.graph = SetTargetAtTime(@, "alarmGain", AlarmGainOn),
                      !.timers = SetInterval(@, "Alarm"),
                      !.statusCleanup = "none"]
       ELSE [e EXCEPT !.graph = SetTargetAtTime(@, "alarmGain", 0),
                      !.statusCleanup = "none"]

\* a status effect without the else branch: the alarm gain is never released
StatusEffectNoRelease(e, r, s) ==
  IF ~r.audioCtx \/ ~r.alarmGain \/ ~r.alarmOsc
  THEN [e EXCEPT !.statusCleanup = "none"]
  ELSE IF s = "OVERRIDE"
       THEN [e EXCEPT !.graph = SetTargetAtTime(@, "alarmGain", AlarmGainOn),
                      !.timers = SetInterval(@, "Alarm"),
                      !.statusCleanup = "Alarm"]
       ELSE [e EXCEPT !.statusCleanup = "none"]

\* useEffect(..., [status])
StatusEffect(e, r, s) ==
  IF ~r.audioCtx \/ ~r.alarmGain \/ ~r.alarmOsc
  THEN [e EXCEPT !.statusCleanup = "none"]
  ELSE IF s = "OVERRIDE"
       THEN [e EXCEPT !.graph = SetTargetAtTime(@, "alarmGain", AlarmGainOn),
                      !.timers = SetInterval(@, "Alarm"),
                      !.statusCleanup = "Alarm"]
       ELSE [e EXCEPT !.graph = SetTargetAtTime(@, "alarmGain", 0),
                      !.statusCleanup = "none"]

\* a profile effect that returns no cleanup: the interval is never cleared
ProfileCleanupLeak(e) ==
  [e EXCEPT !.profileCleanup = "none"]

\* the function the profile effect returned on its last run:
\* if (profileInterval) clearInterval(profileInterval)
ProfileCleanup(e) ==
  IF e.profileCleanup # "none"
  THEN [e EXCEPT !.timers = ClearInterval(@, e.profileCleanup),
                 !.profileCleanup = "none"]
  ELSE e

\* "Default transitions" of the profile effect
Baseline(g) ==
  LET g1 == SetTargetAtTime(g, "filterQ", BaselineQ)
      g2 == SetTargetAtTime(g1, "noiseGain", BaselineNoiseGain)
  IN  SetTargetAtTime(g2, "droneGain", BaselineDroneGain)

\* the writes of each case of the switch, in program order
NaturalCase(g) ==
  LET g1 == [g EXCEPT !.filterType = "lowpass"]
      g2 == SetTargetAtTime(g1, "filterFreq", 400)
      g3 == SetTargetAtTime(g2, "noiseGain", 60)
      g4 == SetBank(g3, 0, "sine", 120)
      g5 == SetBank(g4, 1, "sine", 180)
  IN  SetBank(g5, 2, "sine", 60)

IndustrialCase(g) ==
  LET g1 == [g EXCEPT !.filterType = "bandpass"]
      g2 == SetTargetAtTime(g1, "filterFreq", 200)
      g3 == SetTargetAtTime(g2, "filterQ", 8)
      g4 == SetTargetAtTime(g3, "noiseGain", 30)
      g5 == SetBank(g4, 0, "square", 50)
      g6 == SetBank(g5, 1, "triangle", 100)
  IN  SetBank(g6, 2, "sine", 150)

VoidCase(g) ==
  LET g1 == [g EXCEPT !.filterType = "lowpass"]
      g2 == SetTargetAtTime(g1, "filterFreq", 60)
      g3 == SetTargetAtTime(g2, "noiseGain", 10)
      g4 == SetBank(g3, 0, "sine", 32)
      g5 == SetBank(g4, 1, "sine", 48)
  IN  SetBank(g5, 2, "sine", 24)

ElectronicCase(g) ==
  LET g1 == [g EXCEPT !.filterType = "highpass"]
      g2 == SetTargetAtTime(g1, "filterFreq", 3000)
      g3 == SetTargetAtTime(g2, "noiseGain", 40)
      g4 == SetBank(g3, 0, "sawtooth", 440)
      g5 == SetBank(g4, 1, "square", 880)
  IN  SetBank(g5, 2, "sine", 1760)

HostileCase(g) ==
  LET g1 == [g EXCEPT !.filterType = "notch"]
      g2 == SetTargetAtTime(g1, "filterFreq", 1000)
      g3 == SetTargetAtTime(g2, "filterQ", 4)
      g4 == SetTargetAtTime(g3, "noiseGain", 80)
      g5 == SetBank(g4, 0, "sawtooth", 40)
      g6 == SetBank(g5, 1, "sawtooth", 43)
  IN  SetBank(g6, 2, "square", 21)

\* a switch with a default label on the Void case
ProfileSwitchDefault(g, p) ==
  CASE p = "Natural" -> NaturalCase(g)
    [] p = "Industrial" -> IndustrialCase(g)
    [] p = "Electronic" -> ElectronicCase(g)
    [] p = "Hostile" -> HostileCase(g)
    [] OTHER -> VoidCase(g)

\* switch (profile): the parameter writes
ProfileSwitch(g, p) ==
  CASE p = "Natural" -> NaturalCase(g)
    [] p = "Industrial" -> IndustrialCase(g)
    [] p = "Void" -> VoidCase(g)
    [] p = "Electronic" -> ElectronicCase(g)
    [] p = "Hostile" -> HostileCase(g)
    [] OTHER -> g

\* switch (profile): the value left in profileInterval
ProfileInterval(p) ==
  IF p \in {"Natural", "Industrial", "Electronic", "Hostile"}
  THEN p ELSE "none"

\* a profile effect that applies the default transitions after the switch
ProfileEffectBaselineLast(e, r, p) ==
  IF ~r.audioCtx \/ ~r.noiseFilter \/ ~r.noiseGain \/ r.oscBank < 3
       \/ ~r.droneGain
  THEN [e EXCEPT !.profileCleanup = "none"]
  ELSE [e EXCEPT !.graph = Baseline(ProfileSwitch(@, p)),
                 !.timers = IF ProfileInterval(p) # "none"
                            THEN SetInterval(@, ProfileInterval(p)) ELSE @,
                 !.profileCleanup = ProfileInterval(p)]

\* useEffect(..., [profile])
ProfileEffect(e, r, p) ==
  IF ~r.audioCtx \/ ~r.noiseFilter \/ ~r.noiseGain \/ r.oscBank < 3
       \/ ~r.droneGain
  THEN [e EXCEPT !.profileCleanup = "none"]
  ELSE [e EXCEPT !.graph = ProfileSwitch(Baseline(@), p),
                 !.timers = IF ProfileInterval(p) # "none"
                            THEN SetInterval(@, ProfileInterval(p)) ELSE @,
                 !.profileCleanup = ProfileInterval(p)]

\* an effect without dependency array: it re-runs on every render
DepsChangedAlways(old, new) == TRUE

\* the dependency array of an effect: it re-runs when the value changed
DepsChanged(old, new) == old # new

\* the state of the engine as a record, and its installation
Now == Engine(graph, timers, statusCleanup, profileCleanup)

Install(e) ==
  /\ graph' = e.graph
  /\ timers' = e.timers
  /\ statusCleanup' = e.statusCleanup
  /\ profileCleanup' = e.profileCleanup
  /\ raised' = raised + e.thrown

(***************************************************************************)
(* The content client.                                                     *)
(***************************************************************************)
\* the exported calls of the client
ClientCalls == {"generateJsonFromPrompt", "generateLocationData",
                "generate360View", "analyzeVideo", "complexReasoning",
                "transcribeAudio", "generateSpeech", "processVoiceCommand"}

\* the calls whose request is passed to withRetry
UsesRetry(c) == c \in {"generateLocationData", "generate360View"}

\* default arguments of withRetry
DefaultRetries == 2
DefaultDelay == 2000

\* what a request can throw: an Error whose message is a sequence of
\* fragments, or a value without message
Thrown(fragments) == [hasMessage |-> TRUE, message |-> fragments]
NoMessage == [hasMessage |-> FALSE, message |-> <<>>]
Failures ==
  {Thrown(<<"429", " Too Many Requests">>),
   Thrown(<<"You exceeded your current ", "quota">>),
   Thrown(<<"RESOURCE_", "EXHAUSTED">>),
   Thrown(<<"503 Service Unavailable">>),
   Thrown(<<"No image data received">>),
   NoMessage}

\* error.message?.includes(fragment)
Includes(error, fragment) ==
  /\ error.hasMessage
  /\ \E i \in DOMAIN error.message : error.message[i] = fragment

\* isQuotaError of withRetry
IsQuotaError(error) ==
  \/ Includes(error, "429")
  \/ Includes(error, "quota")
  \/ Includes(error, "EXHAUSTED")

\* no call in progress
Idle ==
  [pc |-> "idle", call |-> "none", retries |-> 0, delay |-> 0,
   attempts |-> 0, waits |-> <<>>, errors |-> <<>>, thrown |-> NoMessage]

\* a call of the client: the request is about to be sent; a call that does
\* not go through withRetry has no retry left
Call(c) ==
  /\ client.pc \in {"idle", "returned", "thrown"}
  /\ client' = [Idle EXCEPT !.pc = "attempt", !.call = c,
                            !.retries = IF UsesRetry(c) THEN DefaultRetries
                                        ELSE 0,
                            !.delay = IF UsesRetry(c) THEN DefaultDelay
                                      ELSE 0]
  /\ UNCHANGED <<audioVars, bot>>

\* an attempt that retries after any error while retries are left
AttemptRetryAll(ok, error) ==
  /\ client.pc = "attempt"
  /\ client' =
       IF ok
       THEN [client EXCEPT !.pc = "returned", !.attempts = @ + 1]
       ELSE IF client.retries > 0
            THEN [client EXCEPT !.pc = "wait", !.attempts = @ + 1,
                                !.errors = Append(@, error)]
            ELSE [client EXCEPT !.pc = "thrown", !.attempts = @ + 1,
                                !.errors = Append(@, error),
                                !.thrown = error]
  /\ UNCHANGED <<audioVars, bot>>

\* try { return await fn() } catch (error) { ... }: the request settles;
\* a quota error with retries left starts the timer, any other error is
\* thrown
Attempt(ok, error) ==
  /\ client.pc = "attempt"
  /\ client' =
       IF ok
       THEN [client EXCEPT !.pc = "returned", !.attempts = @ + 1]
       ELSE IF client.retries > 0 /\ IsQuotaError(error)
            THEN [client EXCEPT !.pc = "wait", !.attempts = @ + 1,
                                !.errors = Append(@, error)]
            ELSE [client EXCEPT !.pc = "thrown", !.attempts = @ + 1,
                                !.errors = Append(@, error),
                                !.thrown = error]
  /\ UNCHANGED <<audioVars, bot>>

\* a wrapper that calls itself with the same number of retries
WakeNoCountdown ==
  /\ client.pc = "wait"
  /\ client' = [client EXCEPT !.pc = "attempt",
                              !.waits = Append(@, client.delay),
                              !.delay = @ * 2]
  /\ UNCHANGED <<audioVars, bot>>

\* the timer of delay ms fires: return withRetry(fn, retries - 1, delay * 2)
Wake ==
  /\ client.pc = "wait"
  /\ client' = [client EXCEPT !.pc = "attempt",
                              !.waits = Append(@, client.delay),
                              !.retries = @ - 1,
                              !.delay = @ * 2]
  /\ UNCHANGED <<audioVars, bot>>

(***************************************************************************)
(* The lock-status console (src/components/BotInterface.tsx).              *)
(***************************************************************************)
\* a log entry is the sequence of the fragments of its string
\* useState(['System Initialized...', 'RAI Handshake: OK'])
InitialLogs == << <<"System Initialized...">>, <<"RAI Handshake: OK">> >>

\* readings of new Date().toLocaleTimeString().split(' ')[0]
Timestamps == {"9:41:07", "9:41:08"}

\* switch (status)
Message(s) ==
  CASE s = "UNLOCKED" -> "L-SYNC RELEASED: FREE MOTION"
    [] s = "SCANNING" -> "INITIATING SPATIAL SWEEP..."
    [] s = "LOCKED" -> "BODYLOCK ENGAGED: TARGET FIXED"
    [] s = "OVERRIDE" -> "CRITICAL: MANUAL OVERRIDE ACTIVE"
    [] OTHER -> ""

\* `[${timestamp}] ${message}`
Entry(timestamp, message) == <<"[", timestamp, "] ", message>>

\* prev.slice(0, n)
Slice(prev, n) == SubSeq(prev, 1, IF Len(prev) < n THEN Len(prev) ELSE n)

\* no console on screen
NoBot == [phase |-> "unmounted", status |-> "UNLOCKED", logs |-> <<>>]

\* a log effect that keeps the whole previous log
LogEffectKeepAll(b, timestamp) ==
  [b EXCEPT !.logs = <<Entry(timestamp, Message(b.status))>> \o @]

\* useEffect(..., [status]): setLogs(prev => [entry, ...prev.slice(0, 3)])
LogEffect(b, timestamp) ==
  [b EXCEPT !.logs = <<Entry(timestamp, Message(b.status))>> \o Slice(@, 3)]

\* the first render of a new instance shows the initial state
BotRender(s) ==
  /\ bot.phase = "unmounted"
  /\ bot' = [phase |-> "rendered", status |-> s, logs |-> InitialLogs]
  /\ UNCHANGED <<audioVars, client>>

\* the effect runs after the first commit
BotMountEffect(timestamp) ==
  /\ bot.phase = "rendered"
  /\ bot' = LogEffect([bot EXCEPT !.phase = "mounted"], timestamp)
  /\ UNCHANGED <<audioVars, client>>

\* the host renders the console with status s
BotSetStatus(s, timestamp) ==
  /\ bot.phase = "mounted"
  /\ bot' = IF DepsChanged(bot.status, s)
            THEN LogEffect([bot EXCEPT !.status = s], timestamp)
            ELSE bot
  /\ UNCHANGED <<audioVars, client>>

\* the console leaves the screen: its state is discarded
BotUnmount ==
  /\ bot.phase = "mounted"
  /\ bot' = NoBot
  /\ UNCHANGED <<audioVars, client>>

(***************************************************************************)
(* Lifecycle.                                                              *)
(***************************************************************************)
Init ==
  /\ phase = "unmounted"
  /\ profile = "Natural"
  /\ status = "UNLOCKED"
  /\ scrollPos = 50
  /\ isMuted = FALSE
  /\ refs = NoRefs
  /\ ctxState = "none"
  /\ graph = NoGraph
  /\ timers = NoTimers
  /\ statusCleanup = "none"
  /\ profileCleanup = "none"
  /\ blip = <<>>
  /\ pending = NoPending
  /\ valueTicks = 0
  /\ lateCallbacks = FALSE
  /\ raised = 0
  /\ liveGraphs = 0
  /\ closeCalls = 0
  /\ restarted = FALSE
  /\ client = Idle
  /\ bot = NoBot

\* the first commit of a new component instance: the five effects run in
\* order of declaration.  new AudioContext() throws when no audio device can
\* be acquired; the mount effect then sets no ref and the other four effects
\* still run in the same commit.
Mount(p, s, sp, m, deviceOk) ==
  /\ phase = "unmounted"
  /\ profile' = p /\ status' = s /\ scrollPos' = sp /\ isMuted' = m
  /\ LET r == IF deviceOk THEN AllRefs ELSE NoRefs
         e0 == [Engine(IF deviceOk THEN NewGraph(m) ELSE NoGraph,
                       timers, "none", "none")
                  EXCEPT !.thrown = IF deviceOk THEN 0 ELSE 1]
         e1 == MuteEffect(e0, r, m)
         e2 == PanEffect(e1, r, sp)
         e3 == StatusEffect(e2, r, s)
         e4 == ProfileEffect(e3, r, p)
     IN  /\ refs' = r
         /\ Install(e4)
  /\ phase' = IF deviceOk THEN "mounted" ELSE "failed"
  /\ ctxState' = IF deviceOk THEN "running" ELSE "none"
  /\ blip' = <<>>
  /\ pending' = NoPending
  /\ liveGraphs' = IF deviceOk THEN liveGraphs + 1 ELSE liveGraphs
  /\ closeCalls' = 0
  /\ restarted' = (deviceOk /\ ctxState = "closed")
  /\ UNCHANGED <<valueTicks, lateCallbacks, client, bot>>

\* an unmount that runs no effect cleanup: the intervals stay
UnmountNoCleanup ==
  /\ phase \in {"mounted", "failed"}
  /\ phase' = "unmounted"
  /\ ctxState' = IF ctxState = "running" THEN "closed" ELSE ctxState
  /\ liveGraphs' = IF phase = "mounted" THEN liveGraphs - 1 ELSE liveGraphs
  /\ closeCalls' = IF phase = "mounted" THEN closeCalls + 1 ELSE closeCalls
  /\ raised' = 0
  /\ restarted' = FALSE
  /\ LET e == Now
     IN  /\ timers' = e.timers
         /\ statusCleanup' = e.statusCleanup
         /\ profileCleanup' = e.profileCleanup
  \* the instance is gone: its props and the nodes of the closed context
  \* are no longer observable
  /\ profile' = "Natural" /\ status' = "UNLOCKED"
  /\ scrollPos' = 50 /\ isMuted' = FALSE
  /\ graph' = NoGraph
  /\ blip' = <<>>
  /\ pending' = NoPending
  /\ UNCHANGED <<refs, valueTicks, lateCallbacks, client, bot>>

\* an unmount whose mount cleanup does not close the context
UnmountNoClose ==
  /\ phase \in {"mounted", "failed"}
  /\ phase' = "unmounted"
  /\ UNCHANGED <<ctxState, liveGraphs, closeCalls>>
  /\ raised' = 0
  /\ restarted' = FALSE
  /\ LET e == ProfileCleanup(StatusCleanup(Now))
     IN  /\ timers' = e.timers
         /\ statusCleanup' = e.statusCleanup
         /\ profileCleanup' = e.profileCleanup
  \* the instance is gone: its props and the nodes of the closed context
  \* are no longer observable
  /\ profile' = "Natural" /\ status' = "UNLOCKED"
  /\ scrollPos' = 50 /\ isMuted' = FALSE
  /\ graph' = NoGraph
  /\ blip' = <<>>
  /\ pending' = NoPending
  /\ UNCHANGED <<refs, valueTicks, lateCallbacks, client, bot>>

\* unmount: the cleanups run in order of declaration, ctx.close() first;
\* a mount effect that threw has returned no cleanup
Unmount ==
  /\ phase \in {"mounted", "failed"}
  /\ phase' = "unmounted"
  /\ ctxState' = IF ctxState = "running" THEN "closed" ELSE ctxState
  /\ liveGraphs' = IF phase = "mounted" THEN liveGraphs - 1 ELSE liveGraphs
  /\ closeCalls' = IF phase = "mounted" THEN closeCalls + 1 ELSE closeCalls
  /\ raised' = 0
  /\ restarted' = FALSE
  /\ LET e == ProfileCleanup(StatusCleanup(Now))
     IN  /\ timers' = e.timers
         /\ statusCleanup' = e.statusCleanup
         /\ profileCleanup' = e.profileCleanup
  \* the instance is gone: its props and the nodes of the closed context
  \* are no longer observable
  /\ profile' = "Natural" /\ status' = "UNLOCKED"
  /\ scrollPos' = 50 /\ isMuted' = FALSE
  /\ graph' = NoGraph
  /\ blip' = <<>>
  /\ pending' = NoPending
  /\ UNCHANGED <<refs, valueTicks, lateCallbacks, client, bot>>

(***************************************************************************)
(* The control surface: the host renders the component with a new prop.    *)
(***************************************************************************)
SetMuted(m) ==
  /\ phase \in {"mounted", "failed"}
  /\ isMuted' = m
  /\ Install(IF DepsChanged(isMuted, m) THEN MuteEffect(Now, refs, m)
             ELSE Now)
  /\ UNCHANGED <<phase, profile, status, scrollPos, refs, ctxState, blip,
                 pending, valueTicks, lateCallbacks, liveGraphs, closeCalls,
                 client, bot>>
  /\ restarted' = FALSE

SetScrollPosition(p) ==
  /\ phase \in {"mounted", "failed"}
  /\ scrollPos' = p
  /\ Install(IF DepsChanged(scrollPos, p) THEN PanEffect(Now, refs, p)
             ELSE Now)
  /\ UNCHANGED <<phase, profile, status, isMuted, refs, ctxState, blip,
                 pending, valueTicks, lateCallbacks, liveGraphs, closeCalls,
                 client, bot>>
  /\ restarted' = FALSE

SetStatus(s) ==
  /\ phase \in {"mounted", "failed"}
  /\ status' = s
  /\ Install(IF DepsChanged(status, s)
             THEN StatusEffect(StatusCleanup(Now), refs, s)
             ELSE Now)
  /\ UNCHANGED <<phase, profile, scrollPos, isMuted, refs, ctxState, blip,
                 pending, valueTicks, lateCallbacks, liveGraphs, closeCalls,
                 client, bot>>
  /\ restarted' = FALSE

SetProfile(p) ==
  /\ phase \in {"mounted", "failed"}
  /\ profile' = p
  /\ Install(IF DepsChanged(profile, p)
             THEN ProfileEffect(ProfileCleanup(Now), refs, p)
             ELSE Now)
  /\ UNCHANGED <<phase, status, scrollPos, isMuted, refs, ctxState, blip,
                 pending, valueTicks, lateCallbacks, liveGraphs, closeCalls,
                 client, bot>>
  /\ restarted' = FALSE

(***************************************************************************)
(* The bodies of the setInterval routines, and the passing of audio time.  *)
(***************************************************************************)
\* a timer callback that runs although its context has been closed
Late == lateCallbacks \/ ctxState = "closed"

TickFrame ==
  /\ UNCHANGED <<phase, profile, status, scrollPos, isMuted, refs, ctxState,
                 timers, statusCleanup, profileCleanup, raised, liveGraphs,
                 closeCalls, client, bot>>
  /\ restarted' = FALSE

\* every 1000 ms: frequency.setValueAtTime(880, time) sets the value at
\* once, and an exponential ramp takes it to 440 within 0.4 s
AlarmTick ==
  /\ timers["Alarm"] > 0
  /\ graph' = IF ~refs.audioCtx \/ ~refs.alarmOsc THEN graph
              ELSE [graph EXCEPT !.alarmValue = AlarmSweepHigh,
                                 !.alarmFreq = AlarmSweepLow]
  /\ lateCallbacks' = Late
  /\ TickFrame /\ UNCHANGED <<blip, pending, valueTicks>>

\* every 2000 ms: an exponential ramp of the cutoff to
\* 200 + Math.random() * 800 is scheduled, to end 1.5 s later; the ramp of
\* the tick before has ended by then.  ahead: the 1.5 s are followed step
\* by step (RampEnd); otherwise they pass before anything else happens
NaturalTick(f, ahead) ==
  /\ timers["Natural"] > 0
  /\ pending.cutoff = 0
  /\ ahead => valueTicks < MaxValueTicks
  /\ graph' = [graph EXCEPT
                 !.filterFreq = f,
                 !.how["filterFreq"] = {"exponentialRampToValueAtTime"}]
  /\ pending' = [pending EXCEPT !.cutoff = IF ahead THEN f ELSE 0]
  /\ valueTicks' = IF ahead THEN valueTicks + 1 ELSE valueTicks
  /\ lateCallbacks' = Late
  /\ TickFrame /\ UNCHANGED blip

\* 1.5 s after a Natural tick: the scheduled ramp ends at its value,
\* whatever target was set in between
RampEnd ==
  /\ pending.cutoff # 0
  /\ ctxState = "running"
  /\ graph' = [graph EXCEPT !.filterFreq = pending.cutoff]
  /\ pending' = [pending EXCEPT !.cutoff = 0]
  /\ TickFrame /\ UNCHANGED <<blip, valueTicks, lateCallbacks>>

\* every 1000 ms: drone gain set to 0.15, ramped to 0.25 within 0.1 s and
\* back to 0.15 within 0.5 s; the pulse of the tick before has ended.
\* ahead: the 0.5 s are followed step by step (PulseEnd)
IndustrialTick(ahead) ==
  /\ timers["Industrial"] > 0
  /\ pending.drone = 0
  /\ ahead => valueTicks < MaxValueTicks
  /\ graph' = [graph EXCEPT
                 !.droneGain = PulseLow,
                 !.how["droneGain"] =
                    {"setValueAtTime", "linearRampToValueAtTime"}]
  /\ pending' = [pending EXCEPT !.drone = IF ahead THEN PulseLow ELSE 0]
  /\ valueTicks' = IF ahead THEN valueTicks + 1 ELSE valueTicks
  /\ lateCallbacks' = Late
  /\ TickFrame /\ UNCHANGED blip

\* 0.5 s after an Industrial tick: the scheduled pulse ends at 0.15,
\* whatever target was set in between
PulseEnd ==
  /\ pending.drone # 0
  /\ ctxState = "running"
  /\ graph' = [graph EXCEPT !.droneGain = pending.drone]
  /\ pending' = [pending EXCEPT !.drone = 0]
  /\ TickFrame /\ UNCHANGED <<blip, valueTicks, lateCallbacks>>

\* every 600 ms: one slot jumps to 100 + Math.random() * 5000 and a restore
\* to frequency.value, as read now, is scheduled 0.05 s later
ElectronicTick(k, f) ==
  /\ timers["Electronic"] > 0
  /\ blip = <<>>
  /\ valueTicks < MaxValueTicks
  /\ valueTicks' = valueTicks + 1
  /\ LET originalFreq == graph.bankValue[k]
     IN  /\ graph' = [graph EXCEPT !.bankValue[k] = f,
                                   !.bankTarget[k] = originalFreq,
                                   !.howBank[k] = {"setValueAtTime"}]
         /\ blip' = <<[slot |-> k, freq |-> originalFreq]>>
  /\ lateCallbacks' = Late
  /\ TickFrame /\ UNCHANGED pending

\* 0.05 s after a glitch: the scheduled setValueAtTime(originalFreq) takes
\* effect, whatever target was set in between
BlipRestore ==
  /\ blip # <<>>
  /\ ctxState = "running"
  /\ graph' = [graph EXCEPT !.bankValue[blip[1].slot] = blip[1].freq,
                            !.bankTarget[blip[1].slot] = blip[1].freq]
  /\ blip' = <<>>
  /\ TickFrame /\ UNCHANGED <<pending, valueTicks, lateCallbacks>>

\* every 50 ms: each slot is retargeted to frequency.value, as read now,
\* plus (Math.random() - 0.5) * 20
HostileTick(d) ==
  /\ timers["Hostile"] > 0
  /\ valueTicks < MaxValueTicks
  /\ valueTicks' = valueTicks + 1
  /\ graph' = [graph EXCEPT
                 !.bankTarget = [i \in Slots |-> graph.bankValue[i] + d[i + 1]],
                 !.howBank = [i \in Slots |-> {"setTargetAtTime"}]]
  /\ lateCallbacks' = Late
  /\ TickFrame /\ UNCHANGED <<blip, pending>>

\* audio time passes for several time constants: the bank frequencies and
\* the alarm frequency reach their targets; every scheduled end has passed
Settle ==
  /\ ctxState = "running"
  /\ blip = <<>>
  /\ pending = NoPending
  /\ graph.bankValue # graph.bankTarget \/ graph.alarmValue # graph.alarmFreq
  /\ graph' = [graph EXCEPT !.bankValue = graph.bankTarget,
                            !.alarmValue = graph.alarmFreq]
  /\ TickFrame /\ UNCHANGED <<blip, pending, valueTicks, lateCallbacks>>

\* the steps of the system when the host draws the props from the sets
\* P (profile), S (status), SP (scrollPos) and M (isMuted), and lets the
\* ramps of the Natural and Industrial routines end before its next call
NextOn(P, S, SP, M) ==
  \/ \E p \in P, s \in S, sp \in SP, m \in M, ok \in BOOLEAN :
        Mount(p, s, sp, m, ok)
  \/ Unmount
  \/ \E m \in M : SetMuted(m)
  \/ \E p \in SP : SetScrollPosition(p)
  \/ \E s \in S : SetStatus(s)
  \/ \E p \in P : SetProfile(p)
  \/ AlarmTick
  \/ \E f \in NaturalRampChoices : NaturalTick(f, FALSE)
  \/ IndustrialTick(FALSE)
  \/ \E k \in Slots, f \in GlitchChoices : ElectronicTick(k, f)
  \/ BlipRestore
  \/ \E d \in JitterChoices : HostileTick(d)
  \/ Settle

\* the ticks of the Natural and Industrial routines whose scheduled end is
\* awaited while the host goes on, and those ends
Automation ==
  \/ \E f \in NaturalRampChoices : NaturalTick(f, TRUE)
  \/ RampEnd
  \/ IndustrialTick(TRUE)
  \/ PulseEnd

\* the host uses the whole control surface
Next == NextOn(Profiles, BotLockStatus, ScrollInputs, BOOLEAN)

Spec == Init /\ [][Next]_vars

\* the host changes profile and status; scroll position and mute flag stay
\* at their initial values
NextAxes == NextOn(Profiles, BotLockStatus, {50}, {FALSE})

SpecAxes == Init /\ [][NextAxes]_vars

\* the host changes profile, status and mute flag
NextMute == NextOn(Profiles, BotLockStatus, {50}, BOOLEAN)

SpecMute == Init /\ [][NextMute]_vars

\* the host changes profile and scroll position, and raises the alarm
NextPan == NextOn(Profiles, {"UNLOCKED", "OVERRIDE"}, PanInputs, {FALSE})

SpecPan == Init /\ [][NextPan]_vars

\* the host changes the profile and raises the alarm, at any moment of a
\* routine's scheduled ramp
NextAutomation ==
  \/ NextOn(Profiles, {"UNLOCKED", "OVERRIDE"}, {50}, {FALSE})
  \/ Automation

SpecAutomation == Init /\ [][NextAutomation]_vars

\* the application calls the content client; the engine is not started
NextClient ==
  \/ \E c \in ClientCalls : Call(c)
  \/ \E ok \in BOOLEAN, error \in Failures : Attempt(ok, error)
  \/ Wake

SpecClient == Init /\ [][NextClient]_vars

\* the host shows the console and changes its status; the engine is not
\* started
NextBot ==
  \/ \E s \in BotLockStatus : BotRender(s)
  \/ \E t \in Timestamps : BotMountEffect(t)
  \/ \E s \in BotLockStatus, t \in Timestamps : BotSetStatus(s, t)
  \/ BotUnmount

SpecBot == Init /\ [][NextBot]_vars

\* the host uses the four controls, with two scroll positions
NextControls == NextOn(KnownProfiles, {"UNLOCKED", "OVERRIDE"}, {50, 100}, BOOLEAN)

SpecControls == Init /\ [][NextControls]_vars

TypeOK ==
  /\ phase \in {"unmounted", "mounted", "failed"}
  /\ bot.phase \in {"unmounted", "rendered", "mounted"}
  /\ bot.status \in BotLockStatus
  /\ profile \in Profiles
  /\ status \in BotLockStatus
  /\ scrollPos \in ScrollInputs \cup PanInputs
  /\ isMuted \in BOOLEAN
  /\ ctxState \in {"none", "running", "closed"}
  /\ timers \in [TimerKinds -> Nat]
  /\ statusCleanup \in {"none", "Alarm"}
  /\ profileCleanup \in ProfileTimerKinds \cup {"none"}
  /\ pending \in [cutoff : NaturalRampChoices \cup {0}, drone : {0, PulseLow}]
  /\ valueTicks \in 0..MaxValueTicks
  /\ raised \in Nat /\ liveGraphs \in Nat /\ closeCalls \in Nat
  /\ restarted \in BOOLEAN /\ lateCallbacks \in BOOLEAN
  /\ client.pc \in {"idle", "attempt", "wait", "returned", "thrown"}
  /\ client.call \in ClientCalls \cup {"none"}
  /\ client.retries \in Nat /\ client.delay \in Nat
  /\ client.attempts = Len(client.errors)
                         + (IF client.pc = "returned" THEN 1 ELSE 0)

(***************************************************************************)
(* Properties.                                                             *)
(***************************************************************************)
Mounted == phase = "mounted"

\* the three bank slots with the values a, b, c
Bank(a, b, c) == [i \in Slots |-> <<a, b, c>>[i + 1]]

\* a step in which the host changes the profile of a started engine
ProfileChange == Mounted /\ phase' = "mounted" /\ profile' # profile
\* a step in which the host changes the status of a started engine
StatusChange == Mounted /\ phase' = "mounted" /\ status' # status

LiveProfileRoutines ==
  timers["Natural"] + timers["Industrial"] + timers["Electronic"]
    + timers["Hostile"]

\* C1: on a started engine at most one profile-driven routine is live, and
\* it is the routine of the active profile (none for Void or an unknown
\* profile); the previous profile's routine is never live next to it.
C1_OneProfileRoutine ==
  Mounted =>
    /\ LiveProfileRoutines <= 1
    /\ \A k \in ProfileTimerKinds :
         timers[k] = IF k = profile /\ profile # "Void" THEN 1 ELSE 0

\* C1 witness: Industrial was entered from a settled Natural profile and
\* its routine is the live one
C1_Witness ==
  /\ Mounted /\ profile = "Industrial"
  /\ graph.bankValue = Bank(120, 180, 60)
  /\ timers["Industrial"] = 1 /\ timers["Natural"] = 0

\* C2: on a started engine exactly one alarm sweep routine is live when the
\* status is OVERRIDE and none otherwise.
C2_OneAlarmRoutine ==
  Mounted => timers["Alarm"] = IF status = "OVERRIDE" THEN 1 ELSE 0

\* C2 witness: OVERRIDE was left after its routine had ticked, and no
\* routine stays behind
C2_Witness ==
  /\ Mounted /\ status = "LOCKED"
  /\ graph.alarmValue = AlarmSweepHigh
  /\ timers["Alarm"] = 0

\* C3: once the engine is stopped no routine is live on either axis, and no
\* timer callback ever runs on a closed audio context.
C3_TeardownTotal ==
  /\ phase = "unmounted" => timers = NoTimers
  /\ ~lateCallbacks

\* C3 witness: an engine whose Electronic or Hostile routine had ticked has
\* been stopped
C3_Witness ==
  /\ phase = "unmounted" /\ ctxState = "closed"
  /\ valueTicks > 0
  /\ timers = NoTimers

\* the parameters the profile effect writes, and those the status effect
\* writes
ProfileSide(g) ==
  <<g.filterType, g.filterFreq, g.filterQ, g.noiseGain, g.droneGain,
    g.bankType, g.bankTarget>>

AlarmSide(g) == <<g.alarmGain, g.alarmFreq, g.alarmValue, g.alarmType>>

ProfileRoutines(t) == [k \in ProfileTimerKinds |-> t[k]]

\* the targets, values and waveforms of a graph, without the record of the
\* methods that wrote them
Targets(g) ==
  [x \in DOMAIN g \ {"built", "how", "howBank", "edges"} |-> g[x]]

\* C4: a profile change leaves the alarm sweep routine and the alarm
\* parameters alone, a status change leaves the profile routine and the
\* filter, noise-gain, drone-gain and bank targets alone, and with profile
\* Hostile and status OVERRIDE the 50 ms jitter routine and the 1000 ms
\* sweep routine are both live.
C4_AxesIndependent ==
  [][/\ ProfileChange =>
          /\ timers'["Alarm"] = timers["Alarm"]
          /\ statusCleanup' = statusCleanup
          /\ AlarmSide(graph') = AlarmSide(graph)
     /\ StatusChange =>
          /\ ProfileRoutines(timers') = ProfileRoutines(timers)
          /\ profileCleanup' = profileCleanup
          /\ ProfileSide(graph') = ProfileSide(graph)
     /\ (phase' = "mounted" /\ profile' = "Hostile" /\ status' = "OVERRIDE") =>
          /\ timers'["Hostile"] = 1 /\ TimerPeriod("Hostile") = 50
          /\ timers'["Alarm"] = 1 /\ TimerPeriod("Alarm") = 1000
    ]_vars

\* C4 witness: Hostile and OVERRIDE together, both routines live, the alarm
\* routine having ticked
C4_Witness ==
  /\ Mounted /\ profile = "Hostile" /\ status = "OVERRIDE"
  /\ timers["Hostile"] = 1 /\ timers["Alarm"] = 1
  /\ graph.alarmValue = AlarmSweepHigh

\* the profile table of the specification: filter, resonance, noise gain,
\* drone gain, bank waveforms and frequencies, routine period (0: none)
ProfileTable(p) ==
  CASE p = "Natural" ->
         [filterType |-> "lowpass", filterFreq |-> 400, filterQ |-> 1,
          noiseGain |-> 60, droneGain |-> 20,
          bankType |-> Bank("sine", "sine", "sine"),
          bankFreq |-> Bank(120, 180, 60), period |-> 2000]
    [] p = "Industrial" ->
         [filterType |-> "bandpass", filterFreq |-> 200, filterQ |-> 8,
          noiseGain |-> 30, droneGain |-> 20,
          bankType |-> Bank("square", "triangle", "sine"),
          bankFreq |-> Bank(50, 100, 150), period |-> 1000]
    [] p = "Void" ->
         [filterType |-> "lowpass", filterFreq |-> 60, filterQ |-> 1,
          noiseGain |-> 10, droneGain |-> 20,
          bankType |-> Bank("sine", "sine", "sine"),
          bankFreq |-> Bank(32, 48, 24), period |-> 0]
    [] p = "Electronic" ->
         [filterType |-> "highpass", filterFreq |-> 3000, filterQ |-> 1,
          noiseGain |-> 40, droneGain |-> 20,
          bankType |-> Bank("sawtooth", "square", "sine"),
          bankFreq |-> Bank(440, 880, 1760), period |-> 600]
    [] p = "Hostile" ->
         [filterType |-> "notch", filterFreq |-> 1000, filterQ |-> 4,
          noiseGain |-> 80, droneGain |-> 20,
          bankType |-> Bank("sawtooth", "sawtooth", "square"),
          bankFreq |-> Bank(40, 43, 21), period |-> 50]

\* the periods of the live profile routines
LivePeriods(t) == {TimerPeriod(k) : k \in {j \in ProfileTimerKinds : t[j] > 0}}

TableInForce(g, t, p) ==
  LET row == ProfileTable(p)
  IN  /\ g.filterType = row.filterType
      /\ g.filterFreq = row.filterFreq
      /\ g.filterQ = row.filterQ
      /\ g.noiseGain = row.noiseGain
      /\ g.droneGain = row.droneGain
      /\ g.bankType = row.bankType
      /\ g.bankTarget = row.bankFreq
      /\ LivePeriods(t) = IF row.period = 0 THEN {} ELSE {row.period}

\* C5: immediately after a change to a known profile P the targets in force
\* are the row of P in the profile table, the profile's value winning over
\* the baseline where both are set, with a routine of P's period.
C5_ProfileTable ==
  [][(ProfileChange /\ profile' \in KnownProfiles) =>
        TableInForce(graph', timers', profile')]_vars

\* C5 witness: Electronic entered from a settled Natural profile, its table
\* row in force
C5_Witness ==
  /\ Mounted /\ profile = "Electronic"
  /\ graph.bankValue = Bank(120, 180, 60)
  /\ TableInForce(graph, timers, "Electronic")

\* C6: a second setProfile(P) in a row changes no target and no routine.
C6_SetProfileIdempotent ==
  [][(Mounted /\ \E p \in Profiles : p = profile /\ SetProfile(p)) =>
        UNCHANGED <<graph, timers, statusCleanup, profileCleanup>>]_vars

\* C6 witness: a started engine in profile Natural whose routine has moved
\* the cutoff away from the table value, so that applying the table again
\* would show
C6_Witness ==
  /\ Mounted /\ profile = "Natural" /\ timers["Natural"] = 1
  /\ graph.filterFreq = 999

\* C7: a change to an unrecognised profile cancels the previous routine,
\* applies the baseline targets only, installs no routine and leaves the
\* engine running.
C7_UnknownProfile ==
  [][(ProfileChange /\ profile' \notin KnownProfiles) =>
        /\ graph'.filterQ = 1 /\ graph'.noiseGain = 50 /\ graph'.droneGain = 20
        /\ Targets(graph') = Targets([graph EXCEPT !.filterQ = 1,
                                                   !.noiseGain = 50,
                                                   !.droneGain = 20])
        /\ \A k \in ProfileTimerKinds : timers'[k] = 0
        /\ profileCleanup' = "none"
        /\ ctxState' = "running"]_vars

\* C7 witness: an unrecognised profile entered from Hostile: the notch at
\* 1000 Hz stays, resonance and noise gain are back at the baseline
C7_Witness ==
  /\ Mounted /\ profile = "Unknown"
  /\ graph.filterType = "notch" /\ graph.filterFreq = 1000
  /\ graph.filterQ = 1 /\ graph.noiseGain = 50
  /\ LiveProfileRoutines = 0

\* clamp(x, lo, hi)
Clamp(x, lo, hi) == IF x < lo THEN lo ELSE IF x > hi THEN hi ELSE x

\* C8: the pan target is clamp(p/50 - 1, -1, 1) for every scroll position p
\* (in fiftieths: clamp(p - 50, -50, 50)), hence always within [-1, 1].
C8_PanClamped ==
  Mounted =>
    /\ graph.pan = Clamp(scrollPos - 50, -50, 50)
    /\ graph.pan >= -50 /\ graph.pan <= 50

\* C9: the master gain target is 0 when muted and 0.4 when unmuted,
\* whatever the profile and the status, and a mute followed by an unmute
\* restores 0.4.
C9_MasterGain ==
  /\ [](Mounted => graph.mainGain = IF isMuted THEN 0 ELSE 40)
  /\ [][(Mounted /\ isMuted /\ phase' = "mounted" /\ ~isMuted') =>
          graph'.mainGain = 40]_vars

\* C9 witness: muted under Hostile and OVERRIDE with both routines running
C9_Witness ==
  /\ Mounted /\ isMuted /\ graph.mainGain = 0
  /\ profile = "Hostile" /\ status = "OVERRIDE"
  /\ graph.alarmValue = AlarmSweepHigh /\ valueTicks > 0

\* C10: on a started engine the alarm gain target is 0.1 exactly when the
\* status is OVERRIDE and 0 otherwise.
C10_AlarmGain ==
  Mounted => graph.alarmGain = IF status = "OVERRIDE" THEN 10 ELSE 0

\* C10 witness: OVERRIDE was left after a sweep had started, and the alarm
\* gain target is back at 0
C10_Witness ==
  /\ Mounted /\ status = "SCANNING"
  /\ graph.alarmValue = AlarmSweepHigh
  /\ graph.alarmGain = 0

(***************************************************************************)
(* How parameters are written.                                             *)
(***************************************************************************)
\* a step in which the host changes a prop of a started engine
ControlStep ==
  /\ Mounted /\ phase' = "mounted"
  /\ <<profile', status', scrollPos', isMuted'>>
       # <<profile, status, scrollPos, isMuted>>

\* C11 (as claimed): on a started engine no parameter was written as a
\* value, by construction or later: every write was a setTargetAtTime
\* transition with a time constant.
C11_NoInstantWrite ==
  Mounted =>
    /\ \A a \in AudioParams :
         graph.built[a] # "value" /\ graph.how[a] \subseteq {"setTargetAtTime"}
    /\ \A i \in Slots : graph.howBank[i] \subseteq {"setTargetAtTime"}
    /\ graph.alarmValue = graph.alarmFreq

\* C11 (amended): every parameter a control-surface call writes, and every
\* bank frequency the Hostile routine writes, is written by setTargetAtTime
\* with a time constant.  Construction writes the master, drone and alarm
\* gains as values; the alarm, Industrial and Electronic routines set a
\* value at once with setValueAtTime (the first two then ramp to an end
\* time), and the Natural routine schedules an exponential ramp.
C11_TargetOnControl ==
  [][/\ ControlStep =>
          /\ \A a \in AudioParams :
               (graph'[a] # graph[a] \/ graph'.how[a] # graph.how[a])
                  => graph'.how[a] = {"setTargetAtTime"}
          /\ \A i \in Slots :
               (graph'.bankTarget[i] # graph.bankTarget[i]
                  \/ graph'.howBank[i] # graph.howBank[i])
                  => graph'.howBank[i] = {"setTargetAtTime"}
          /\ isMuted' # isMuted => graph'.how["mainGain"] = {"setTargetAtTime"}
          /\ scrollPos' # scrollPos => graph'.how["pan"] = {"setTargetAtTime"}
          /\ status' # status => graph'.how["alarmGain"] = {"setTargetAtTime"}
          /\ profile' # profile =>
               \A a \in {"filterQ", "noiseGain", "droneGain"} :
                  graph'.how[a] = {"setTargetAtTime"}
          /\ UNCHANGED <<graph.bankValue, graph.alarmValue>>
     /\ (Mounted /\ \E d \in JitterChoices : HostileTick(d)) =>
          \A i \in Slots : graph'.howBank[i] = {"setTargetAtTime"}
     /\ (phase = "unmounted" /\ phase' = "mounted") =>
          \A a \in {"mainGain", "droneGain", "alarmGain"} :
             graph'.built[a] = "value"
     /\ (Mounted /\ AlarmTick) =>
          /\ graph'.alarmValue = AlarmSweepHigh
          /\ graph'.alarmFreq = AlarmSweepLow
     /\ (Mounted /\ IndustrialTick(FALSE)) =>
          graph'.how["droneGain"]
             = {"setValueAtTime", "linearRampToValueAtTime"}
     /\ (Mounted /\ \E k \in Slots, f \in GlitchChoices : ElectronicTick(k, f)) =>
          \E k \in Slots :
             /\ graph'.howBank[k] = {"setValueAtTime"}
             /\ graph'.bankValue[k] \in GlitchChoices
     /\ (Mounted /\ \E f \in NaturalRampChoices : NaturalTick(f, FALSE)) =>
          graph'.how["filterFreq"] = {"exponentialRampToValueAtTime"}
    ]_vars

\* C11 witness: the master gain written by a mute call, the pan by a scroll
\* call, the drone gain by the Industrial pulse
C11_Witness ==
  /\ Mounted /\ isMuted /\ scrollPos = 100 /\ profile = "Industrial"
  /\ graph.how["mainGain"] = {"setTargetAtTime"}
  /\ graph.how["pan"] = {"setTargetAtTime"} /\ graph.pan = 50
  /\ graph.how["droneGain"] = {"setValueAtTime", "linearRampToValueAtTime"}

(***************************************************************************)
(* Lifecycle of the graph.                                                 *)
(***************************************************************************)
\* the engine a first start builds for the props p, s, sp, m: the mount
\* effect and then the four other effects, on no timer
FreshEngine(p, s, sp, m) ==
  LET e0 == Engine(NewGraph(m), NoTimers, "none", "none")
      e1 == MuteEffect(e0, AllRefs, m)
      e2 == PanEffect(e1, AllRefs, sp)
      e3 == StatusEffect(e2, AllRefs, s)
  IN  ProfileEffect(e3, AllRefs, p)

\* C12: whatever the props, an engine started after a stop has the targets
\* and the live routines of a fresh engine started with these props: no
\* timer, no scheduled automation and no node of the stopped engine is left.
C12_RestartFresh ==
  [][(phase = "unmounted" /\ phase' = "mounted") =>
        LET fresh == FreshEngine(profile', status', scrollPos', isMuted')
        IN  /\ graph' = fresh.graph
            /\ timers' = fresh.timers
            /\ statusCleanup' = fresh.statusCleanup
            /\ profileCleanup' = fresh.profileCleanup
            /\ blip' = <<>> /\ pending' = NoPending
            /\ refs' = AllRefs /\ raised' = 0]_vars

\* C12 witness: an engine restarted with Hostile, OVERRIDE, muted and
\* scrolled to the right, after a stopped engine whose routines had ticked
C12_Witness ==
  /\ restarted /\ Mounted /\ valueTicks > 0
  /\ profile = "Hostile" /\ status = "OVERRIDE" /\ isMuted /\ scrollPos = 100
  /\ timers["Hostile"] = 1 /\ timers["Alarm"] = 1

\* C13: on a started engine the bank holds exactly 3 oscillators and the
\* connections are those made at construction, whatever profile changes
\* and routine ticks came before.
C13_BankOfThree ==
  Mounted =>
    /\ graph.bankSize = 3 /\ refs.oscBank = 3
    /\ DOMAIN graph.bankType = Slots /\ DOMAIN graph.bankTarget = Slots
    /\ graph.edges = NewGraph(FALSE).edges
    /\ Cardinality({e \in graph.edges : e[2] = "droneGain"}) = 3

\* C13 witness: Void entered after a routine of another profile has ticked,
\* waveforms and frequencies changed, the bank still of three
C13_Witness ==
  /\ Mounted /\ profile = "Void" /\ valueTicks > 0
  /\ graph.bankTarget = Bank(32, 48, 24) /\ graph.bankSize = 3
  /\ graph.bankValue # Bank(440, 440, 440)

\* C14: over any sequence of starts and stops at most one graph is live:
\* a started engine has exactly one, a stopped or failed one has none, and
\* the context of a stopped engine has been closed by exactly one call.
C14_OneGraph ==
  /\ liveGraphs <= 1
  /\ Mounted <=> liveGraphs = 1
  /\ Mounted => (ctxState = "running" /\ closeCalls = 0)
  /\ ctxState = "closed" => (phase = "unmounted" /\ closeCalls = 1)
  /\ closeCalls <= 1

\* C14 witness: the second start of an engine, one graph live
C14_Witness ==
  /\ restarted /\ Mounted /\ liveGraphs = 1 /\ ctxState = "running"

\* C18: when new AudioContext() throws at start, the failure is raised once,
\* no graph, ref or routine exists, and every later change of a prop
\* changes nothing of the engine and raises nothing.
C18_DeviceFailure ==
  /\ [](phase = "failed" =>
          /\ raised = 1
          /\ refs = NoRefs /\ graph = NoGraph /\ liveGraphs = 0
          /\ timers = NoTimers
          /\ statusCleanup = "none" /\ profileCleanup = "none")
  /\ [][(phase = "failed" /\ phase' = "failed") =>
          UNCHANGED <<graph, timers, statusCleanup, profileCleanup, refs,
                      ctxState, raised, liveGraphs>>]_vars

\* C18 witness: a failed start, with props that differ from the defaults on
\* all four controls
C18_Witness ==
  /\ phase = "failed" /\ raised = 1
  /\ profile = "Industrial" /\ status = "OVERRIDE" /\ isMuted
  /\ scrollPos = 100

(***************************************************************************)
(* The content client's retries.                                           *)
(***************************************************************************)
\* the last error the call in progress has met
LastError == client.errors[Len(client.errors)]

\* C15: a call through withRetry makes at most 3 attempts (1 and 2
\* retries); each retry follows a quota error and a wait, of 2000 ms before
\* the second attempt and 4000 ms before the third; once an attempt has
\* succeeded or the call has thrown, no attempt and no wait follows.
C15_RetryBounded ==
  /\ client.attempts <= 3
  /\ Len(client.waits) <= 2
  /\ \A i \in DOMAIN client.waits :
       client.waits[i] = IF i = 1 THEN 2000 ELSE 4000
  /\ Len(client.waits) =
       client.attempts - (IF client.pc \in {"attempt", "idle"} THEN 0 ELSE 1)
  /\ \A i \in DOMAIN client.waits : IsQuotaError(client.errors[i])
  /\ client.pc = "wait" => IsQuotaError(LastError)
  /\ client.pc = "returned" => Len(client.errors) = client.attempts - 1
  /\ client.pc \in {"returned", "thrown"} =>
       /\ ~ENABLED (\E ok \in BOOLEAN, error \in Failures : Attempt(ok, error))
       /\ ~ENABLED Wake

\* C15 witness: a call that succeeded on its third attempt, after waits of
\* 2000 and 4000 ms
C15_Witness ==
  /\ client.pc = "returned" /\ client.attempts = 3
  /\ client.waits = <<2000, 4000>>
  /\ UsesRetry(client.call)

\* C16: an error that is not a quota error is thrown after the attempt that
\* met it, with no wait and no further attempt; the error a call throws is
\* the one of its last attempt, and a quota error is thrown by a call
\* through withRetry only after the third attempt.
C16_ErrorsRethrown ==
  /\ \A i \in 1..(Len(client.errors) - 1) : IsQuotaError(client.errors[i])
  /\ (client.errors # <<>> /\ ~IsQuotaError(LastError)) =>
        /\ client.pc = "thrown"
        /\ Len(client.waits) = Len(client.errors) - 1
  /\ client.pc = "thrown" =>
        /\ client.thrown = LastError
        /\ client.attempts = Len(client.errors)
        /\ Len(client.waits) = client.attempts - 1
        /\ (IsQuotaError(client.thrown) /\ UsesRetry(client.call)) =>
              client.attempts = 3

\* C16 witness: three attempts that met three different quota errors; the
\* third one is thrown
C16_Witness ==
  /\ client.pc = "thrown" /\ client.attempts = 3
  /\ client.errors[1] = Thrown(<<"429", " Too Many Requests">>)
  /\ client.errors[2] = Thrown(<<"You exceeded your current ", "quota">>)
  /\ client.thrown = Thrown(<<"RESOURCE_", "EXHAUSTED">>)

\* the content-fetch calls: location data, images, transcription, reasoning
ContentFetch == {"generateLocationData", "generate360View",
                 "transcribeAudio", "complexReasoning"}

\* C17 (as claimed): no content-fetch call throws a quota error met on its
\* first attempt: that attempt is followed by a retry.
C17_FetchRetries ==
  (client.call \in ContentFetch /\ client.pc = "thrown"
     /\ IsQuotaError(client.errors[1]))
    => client.attempts > 1

(***************************************************************************)
(* Scheduled automation across a profile change.                           *)
(***************************************************************************)
\* no scheduled end of a routine lies ahead
NothingAhead == blip = <<>> /\ pending = NoPending

\* C19 (as claimed): once every scheduled end has passed, the parameters
\* that the routine of the active profile does not modulate are at the
\* targets of that profile: the cutoff outside Natural, the drone gain
\* outside Industrial, the bank frequencies outside Electronic and Hostile.
\* Automation scheduled by the routine of the profile before has no effect
\* on them.
C19_OldAutomationDead ==
  (Mounted /\ profile \in KnownProfiles /\ NothingAhead) =>
    LET row == ProfileTable(profile)
    IN  /\ profile # "Natural" => graph.filterFreq = row.filterFreq
        /\ profile # "Industrial" => graph.droneGain = row.droneGain
        /\ profile \notin {"Electronic", "Hostile"} =>
             graph.bankTarget = row.bankFreq

\* C20 (as claimed): in profile Electronic, between blips, every slot is at
\* or heading to its Electronic frequency, 440, 880 and 1760 Hz, after any
\* number of ticks and whenever the first tick comes.
C20_GlitchRestores ==
  (Mounted /\ profile = "Electronic" /\ blip = <<>>) =>
    graph.bankTarget = Bank(440, 880, 1760)

(***************************************************************************)
(* The Hostile jitter.                                                     *)
(***************************************************************************)
\* the distance between two frequencies
Distance(a, b) == IF a >= b THEN a - b ELSE b - a

\* C21 (as claimed): while the Hostile profile is active, after any number
\* of jitter ticks, the frequency target of every slot is within 10 Hz of
\* the slot's Hostile frequency, 40, 43 and 21 Hz: the jitter does not
\* accumulate from tick to tick.
C21_JitterAroundBase ==
  (Mounted /\ profile = "Hostile") =>
    \A i \in Slots :
       Distance(graph.bankTarget[i], ProfileTable("Hostile").bankFreq[i]) <= 10

(***************************************************************************)
(* The mute and pan controls against the profile and status axes.          *)
(***************************************************************************)
\* the targets of a graph but for the master gain and the pan
OffControls(g) == [Targets(g) EXCEPT !.mainGain = 0, !.pan = 0]

\* the routines and what they have scheduled
Routines == <<timers, statusCleanup, profileCleanup, blip, pending>>

\* C22: on a started engine a change of isMuted changes only the master
\* gain target and a change of scrollPos only the pan target: neither
\* cancels or installs a routine, neither changes a filter, noise-gain,
\* drone-gain, bank or alarm target. Conversely no step that leaves isMuted
\* alone (a profile change, a status change, a tick of a routine) changes
\* the master gain target, and none that leaves scrollPos alone changes the
\* pan target.
C22_ControlFrame ==
  [][(Mounted /\ phase' = "mounted") =>
       /\ isMuted' # isMuted =>
            /\ OffControls(graph') = OffControls(graph)
            /\ graph'.pan = graph.pan
            /\ Routines' = Routines
       /\ scrollPos' # scrollPos =>
            /\ OffControls(graph') = OffControls(graph)
            /\ graph'.mainGain = graph.mainGain
            /\ Routines' = Routines
       /\ isMuted' = isMuted => graph'.mainGain = graph.mainGain
       /\ scrollPos' = scrollPos => graph'.pan = graph.pan]_vars

\* C22 witness: muted and scrolled to the end while the Electronic routine
\* has a blip in progress and the alarm is sweeping: both routines live,
\* the alarm gain at 0.1
C22_Witness ==
  /\ Mounted /\ isMuted /\ graph.mainGain = 0
  /\ scrollPos = 100 /\ graph.pan = 50
  /\ profile = "Electronic" /\ timers["Electronic"] = 1 /\ blip # <<>>
  /\ status = "OVERRIDE" /\ timers["Alarm"] = 1
  /\ graph.alarmGain = AlarmGainOn /\ graph.alarmValue = AlarmSweepHigh

(***************************************************************************)
(* The event log of the lock-status console.                               *)
(***************************************************************************)
\* the log after the effect ran on old with the status now shown
Logged(old) ==
  \E t \in Timestamps :
     bot'.logs = <<Entry(t, Message(bot'.status))>> \o Slice(old, 3)

\* C23: the event log never holds more than 4 entries.  It starts with 2
\* entries; the initial status on mount and each status change prepend
\* exactly one entry for the new status in first position, followed by the
\* first 3 entries of the previous log in their previous order; older
\* entries are dropped, and nothing else changes the log.
C23_LogBounded ==
  /\ [](Len(bot.logs) <= 4)
  /\ [](bot.phase = "rendered" => Len(bot.logs) = 2)
  /\ [][/\ (bot.phase = "rendered" /\ bot'.phase = "mounted") =>
             Logged(bot.logs)
        /\ (bot.phase = "mounted" /\ bot'.phase = "mounted") =>
             IF bot'.status # bot.status
             THEN Logged(bot.logs)
             ELSE bot'.logs = bot.logs]_vars

\* C23 witness: a full log after enough status changes: 4 entries, the
\* first for the status shown, the two initial entries dropped
C23_Witness ==
  /\ bot.phase = "mounted" /\ Len(bot.logs) = 4
  /\ \E t \in Timestamps : bot.logs[1] = Entry(t, Message(bot.status))
  /\ \A i \in 1..4 : \A j \in 1..2 : bot.logs[i] # InitialLogs[j]

=============================================================================
